---- MODULE Spec2Model ----
(***************************************************************************)
(* Model of src/app.py: a Flask application that exposes six operations    *)
(* (list/create/delete bucket, scan/put/delete item) over an S3 client and *)
(* a DynamoDB client, and wraps every outcome in a JSON envelope.          *)
(*                                                                         *)
(* The state is what a client and a substitutable provider can observe:    *)
(* the launch mode, the provider's buckets and table, the last request,    *)
(* the provider calls made while handling it, and the response.            *)
(***************************************************************************)
EXTENDS Integers, Sequences, FiniteSets, TLC

VARIABLES
    debug,      \* TRUE when launched by app.run(debug=True), FALSE when imported by a WSGI server
    buckets,    \* the object store: the set of bucket names that exist
    table,      \* the table TABLE_NAME: a function from the key id to the stored Item
    req,        \* the request being answered
    calls,      \* the provider calls made while handling req, in order
    resp        \* the response sent for req

vars == <<debug, buckets, table, req, calls, resp>>

----------------------------------------------------------------------------
(* Bounds and input domains *)

MaxNum == 5

AWS_REGION == "us-east-1"

TABLE_NAME == "MyTable"

BucketNames == {"a-bucket"}

ItemIds == {"1", "123", "9"}

Methods == {"GET", "POST", "DELETE"}

----------------------------------------------------------------------------
(* Python optional arguments: None is the empty set, a value x is {x} *)

None == {}

Some(x) == {x}

TheValue(opt) == CHOOSE x \in opt : TRUE

----------------------------------------------------------------------------
(* JSON values, tagged by their JSON type *)

JNull == [t |-> "null"]

JBool(b) == [t |-> "bool", v |-> b]

JNum(i) == [t |-> "num", v |-> i]

JStr(s) == [t |-> "str", v |-> s]

JArr(q) == [t |-> "arr", v |-> q]

JObj(f) == [t |-> "obj", v |-> f]

\* a request body as sent: absent, not JSON, or the text of a JSON value
NoBody == [t |-> "missing"]

BadBody == [t |-> "invalid"]

\* request.get_json(force=True, silent=True): None for no body or a parse
\* failure (silent), otherwise the parsed value; JSON null parses to None too
get_json(body) ==
    IF body.t \in {"missing", "invalid"} THEN JNull ELSE body

\* Python truthiness, as used by "if not item"
Truthy(x) ==
    CASE x.t = "null" -> FALSE
      [] x.t = "bool" -> x.v
      [] x.t = "num"  -> x.v # 0
      [] x.t = "str"  -> x.v # ""
      [] x.t = "arr"  -> Len(x.v) > 0
      [] x.t = "obj"  -> DOMAIN x.v # {}

\* the text around a needle that the bounded bodies can carry
Affixes == {"", "my ", "x"}

\* needle in haystack, for two Python strings
Substring(needle, hay) ==
    \E p \in Affixes, q \in Affixes : hay = p \o needle \o q

\* "id" in item: key membership for a dict, element equality for a list,
\* substring for a str; any other type raises TypeError
SupportsIn(x) == x.t \in {"obj", "arr", "str"}

Contains(x, key) ==
    CASE x.t = "obj" -> key \in DOMAIN x.v
      [] x.t = "arr" -> \E i \in 1..Len(x.v) : x.v[i] = JStr(key)
      [] x.t = "str" -> Substring(key, x.v)

\* item.items() exists only on a dict
HasItems(x) == x.t = "obj"

RECURSIVE JoinRepr(_, _)
RECURSIVE JoinItems(_, _)
RECURSIVE PyRepr(_)
\* repr(v) of a parsed JSON value
PyRepr(x) ==
    CASE x.t = "null" -> "None"
      [] x.t = "bool" -> IF x.v THEN "True" ELSE "False"
      [] x.t = "num"  -> ToString(x.v)
      [] x.t = "str"  -> "'" \o x.v \o "'"
      [] x.t = "arr"  -> "[" \o JoinRepr(x.v, 1) \o "]"
      [] x.t = "obj"  -> "{" \o JoinItems(x.v, DOMAIN x.v) \o "}"

JoinRepr(q, i) ==
    IF i > Len(q) THEN ""
    ELSE PyRepr(q[i]) \o (IF i < Len(q) THEN ", " ELSE "") \o JoinRepr(q, i + 1)

\* the items of a dict, "'k': repr(v)" joined by ", " (the bodies modelled
\* nest dicts of one key, so the order of the keys does not show)
JoinItems(f, ks) ==
    IF ks = {} THEN ""
    ELSE LET k == CHOOSE x \in ks : TRUE
         IN  "'" \o k \o "': " \o PyRepr(f[k])
             \o (IF ks \ {k} # {} THEN ", " ELSE "") \o JoinItems(f, ks \ {k})

\* str(v): a str is itself, everything else is its repr
PyStr(x) == IF x.t = "str" THEN x.v ELSE PyRepr(x)

----------------------------------------------------------------------------
(* Helper JSON responses *)

DefaultErrorStatus == 400

Response(status, kind, body) == [status |-> status, kind |-> kind, body |-> body]

\* a slip: the error text under the key of a success message
json_error_as_message(message, status) ==
    Response(status, "json", [success |-> FALSE, message |-> message])

json_error(message, status) ==
    Response(status, "json", [success |-> FALSE, error |-> message])

\* a slip: "if data:" for "if data is not None:"
json_success_truthy(data, message) ==
    LET keys == {"success"}
                \cup (IF message # None /\ TheValue(message) # "" THEN {"message"} ELSE {})
                \cup (IF data # None /\ TheValue(data) # <<>> THEN {"data"} ELSE {})
    IN  Response(200, "json",
                 [k \in keys |->
                    CASE k = "success" -> TRUE
                      [] k = "message" -> TheValue(message)
                      [] k = "data"    -> TheValue(data)])

json_success(data, message) ==
    LET keys == {"success"}
                \cup (IF message # None /\ TheValue(message) # "" THEN {"message"} ELSE {})
                \cup (IF data # None THEN {"data"} ELSE {})
    IN  Response(200, "json",
                 [k \in keys |->
                    CASE k = "success" -> TRUE
                      [] k = "message" -> TheValue(message)
                      [] k = "data"    -> TheValue(data)])

\* "return json_success(...), 201"
WithStatus(r, status) == [r EXCEPT !.status = status]

----------------------------------------------------------------------------
(* The provider: the S3 and DynamoDB clients of boto3, and the service      *)
(* state behind them.  A call returns a response or raises.                 *)

\* how the provider behaves on one call: it serves it, it serves it with the
\* optional keys of an empty result left out, the service reports a client
\* error, or the SDK fails before any service answer (a BotoCoreError)
ErrorCodes == {"AccessDenied", "InvalidBucketName"}

Behaviours == {"serve", "serve_bare", "no_credentials"} \cup ErrorCodes

Call(client, op, args) == [client |-> client, op |-> op, args |-> args]

Ok(response) == [kind |-> "ok", response |-> response]

Raise(type, text) == [kind |-> "raise", exc |-> [type |-> type, text |-> text]]

\* str(e) of a botocore ClientError
ClientError(code, op) ==
    Raise("ClientError",
          "An error occurred (" \o code \o ") when calling the " \o op \o " operation")

NoCredentialsError == Raise("NoCredentialsError", "Unable to locate credentials")

RECURSIVE SetToSeq(_)
\* the provider lists a collection in an order of its own
SetToSeq(S) ==
    IF S = {} THEN <<>>
    ELSE LET x == CHOOSE y \in S : TRUE IN <<x>> \o SetToSeq(S \ {x})

Served(call, bare) ==
    CASE call.op = "list_buckets" ->
            IF bare /\ buckets = {} THEN Ok([Owner |-> "me"])
            ELSE Ok([Owner |-> "me",
                     Buckets |-> LET q == SetToSeq(buckets)
                                 IN  [i \in 1..Len(q) |-> [Name |-> q[i]]]])
      [] call.op = "create_bucket" -> Ok([Location |-> "/" \o call.args.Bucket])
      [] call.op = "delete_bucket" ->
            IF call.args.Bucket \in buckets THEN Ok([Deleted |-> TRUE])
            ELSE ClientError("NoSuchBucket", call.op)
      [] call.op = "scan" ->
            IF bare /\ DOMAIN table = {} THEN Ok([Count |-> 0])
            ELSE Ok([Count |-> Cardinality(DOMAIN table),
                     Items |-> LET q == SetToSeq(DOMAIN table)
                               IN  [i \in 1..Len(q) |-> table[q[i]]]])
      [] call.op = "put_item" ->
            IF "id" \in DOMAIN call.args.Item THEN Ok([Stored |-> TRUE])
            ELSE ClientError("ValidationException", call.op)
      [] call.op = "delete_item" -> Ok([Deleted |-> TRUE])

Provider(call, k) ==
    CASE k = "serve"          -> Served(call, FALSE)
      [] k = "serve_bare"     -> Served(call, TRUE)
      [] k = "no_credentials" -> NoCredentialsError
      [] OTHER                -> ClientError(k, call.op)

\* what a served call does to the provider's state
BucketsAfter(bks, c) ==
    IF c.out.kind # "ok" THEN bks
    ELSE CASE c.call.op = "create_bucket" -> bks \cup {c.call.args.Bucket}
           [] c.call.op = "delete_bucket" -> bks \ {c.call.args.Bucket}
           [] OTHER -> bks

TableAfter(tbl, c) ==
    IF c.out.kind # "ok" THEN tbl
    ELSE CASE c.call.op = "put_item" ->
                LET key == c.call.args.Item["id"].S
                IN  [i \in DOMAIN tbl \cup {key} |->
                        IF i = key THEN c.call.args.Item ELSE tbl[i]]
           [] c.call.op = "delete_item" ->
                LET key == c.call.args.Key["id"].S
                IN  [i \in DOMAIN tbl \ {key} |-> tbl[i]]
           [] OTHER -> tbl

----------------------------------------------------------------------------
(* The handlers.  Each takes its route parameters and k, the way the        *)
(* provider behaves on the call the handler makes, and yields the provider  *)
(* calls it made with their outcomes, and what it returned or raised.       *)

Returned(calls_made, r) == [calls |-> calls_made, t |-> "return", v |-> r]

Raised(calls_made, e) == [calls |-> calls_made, t |-> "raise", v |-> e]

Made(call, out) == <<[call |-> call, out |-> out]>>

\* a slip: one sub-cause given a status of its own
ExceptClientError_by_cause(call, out) ==
    IF out.exc.type = "ClientError"
    THEN Returned(Made(call, out),
                  json_error(out.exc.text,
                             IF out = ClientError("AccessDenied", call.op)
                             THEN 403 ELSE DefaultErrorStatus))
    ELSE Raised(Made(call, out), out.exc)

\* "except ClientError as e: return json_error(str(e))"; anything else
\* that the call raises leaves the handler
ExceptClientError(call, out) ==
    IF out.exc.type = "ClientError"
    THEN Returned(Made(call, out), json_error(out.exc.text, DefaultErrorStatus))
    ELSE Raised(Made(call, out), out.exc)

\* response.get(key, [])
GetOrEmpty(response, key) ==
    IF key \in DOMAIN response THEN response[key] ELSE <<>>

get_buckets(k) ==
    LET call == Call("s3", "list_buckets", [NoArgs |-> TRUE])
        out  == Provider(call, k)
    IN  IF out.kind = "ok"
        THEN LET bs == GetOrEmpty(out.response, "Buckets")
             IN  Returned(Made(call, out),
                          json_success(Some([i \in DOMAIN bs |-> bs[i].Name]), None))
        ELSE ExceptClientError(call, out)

create_bucket(bucket_name, k) ==
    LET call == Call("s3", "create_bucket",
                     [Bucket |-> bucket_name,
                      CreateBucketConfiguration |-> [LocationConstraint |-> AWS_REGION]])
        out  == Provider(call, k)
    IN  IF out.kind = "ok"
        THEN Returned(Made(call, out),
                      WithStatus(json_success(None,
                                     Some("Bucket '" \o bucket_name \o "' created")), 201))
        ELSE ExceptClientError(call, out)

delete_bucket(bucket_name, k) ==
    LET call == Call("s3", "delete_bucket", [Bucket |-> bucket_name])
        out  == Provider(call, k)
    IN  IF out.kind = "ok"
        THEN Returned(Made(call, out),
                      json_success(None, Some("Bucket '" \o bucket_name \o "' deleted")))
        ELSE ExceptClientError(call, out)

get_dynamo_items(k) ==
    LET call == Call("dynamodb", "scan", [TableName |-> TABLE_NAME])
        out  == Provider(call, k)
    IN  IF out.kind = "ok"
        THEN Returned(Made(call, out),
                      json_success(Some(GetOrEmpty(out.response, "Items")), None))
        ELSE ExceptClientError(call, out)

\* a slip: numbers stored with the number type tag
ItemOf_typed(item) ==
    [key \in DOMAIN item.v |->
        IF item.v[key].t = "num" THEN [N |-> PyStr(item.v[key])]
        ELSE [S |-> PyStr(item.v[key])]]

\* {k: {'S': str(v)} for k, v in item.items()}
ItemOf(item) == [key \in DOMAIN item.v |-> [S |-> PyStr(item.v[key])]]

\* a slip: the check for 'id' left out
put_dynamo_item_unchecked(body, k) ==
    LET item == get_json(body)
    IN  IF ~Truthy(item)
        THEN Returned(<<>>, json_error("Invalid or missing JSON body", DefaultErrorStatus))
        ELSE IF ~HasItems(item)
        THEN Raised(<<>>, [type |-> "AttributeError",
                           text |-> "'" \o item.t \o "' object has no attribute 'items'"])
        ELSE LET call == Call("dynamodb", "put_item",
                              [TableName |-> TABLE_NAME, Item |-> ItemOf(item)])
                 out  == Provider(call, k)
             IN  IF out.kind = "ok"
                 THEN Returned(Made(call, out),
                               json_success(None, Some("Item saved to DynamoDB")))
                 ELSE ExceptClientError(call, out)

put_dynamo_item(body, k) ==
    LET item == get_json(body)
    IN  IF ~Truthy(item)
        THEN Returned(<<>>, json_error("Invalid or missing JSON body", DefaultErrorStatus))
        ELSE IF ~SupportsIn(item)
        THEN Raised(<<>>, [type |-> "TypeError",
                           text |-> "argument of type '" \o item.t \o "' is not iterable"])
        ELSE IF ~Contains(item, "id")
        THEN Returned(<<>>, json_error("Item must contain 'id'", DefaultErrorStatus))
        ELSE IF ~HasItems(item)
        THEN Raised(<<>>, [type |-> "AttributeError",
                           text |-> "'" \o item.t \o "' object has no attribute 'items'"])
        ELSE LET call == Call("dynamodb", "put_item",
                              [TableName |-> TABLE_NAME, Item |-> ItemOf(item)])
                 out  == Provider(call, k)
             IN  IF out.kind = "ok"
                 THEN Returned(Made(call, out),
                               json_success(None, Some("Item saved to DynamoDB")))
                 ELSE ExceptClientError(call, out)

\* a slip: an existence check before the delete
delete_dynamo_item_checked(id, k) ==
    LET call == Call("dynamodb", "delete_item",
                     [TableName |-> TABLE_NAME, Key |-> [id |-> [S |-> id]]])
        out  == Provider(call, k)
    IN  IF id \notin DOMAIN table
        THEN Returned(<<>>, json_error("Item not found", 404))
        ELSE IF out.kind = "ok"
        THEN Returned(Made(call, out),
                      json_success(None, Some("Item with id=" \o id \o " deleted")))
        ELSE ExceptClientError(call, out)

delete_dynamo_item(id, k) ==
    LET call == Call("dynamodb", "delete_item",
                     [TableName |-> TABLE_NAME, Key |-> [id |-> [S |-> id]]])
        out  == Provider(call, k)
    IN  IF out.kind = "ok"
        THEN Returned(Made(call, out),
                      json_success(None, Some("Item with id=" \o id \o " deleted")))
        ELSE ExceptClientError(call, out)

\* redirect("/apidocs")
root == Returned(<<>>, Response(302, "redirect", [location |-> "/apidocs"]))

\* the documentation UI that Swagger(app) registers
apidocs == Returned(<<>>, Response(200, "html", [html |-> "Flasgger"]))

----------------------------------------------------------------------------
(* Error handlers *)

handle_500(e) == json_error("Internal server error", 500)

handle_404(e) == json_error("Endpoint not found", 404)

----------------------------------------------------------------------------
(* Routing: the rules that the @app.route decorators and Swagger(app)       *)
(* register.  A path is the sequence of its segments; "/s3/buckets/" is     *)
(* <<"s3", "buckets", "">>.                                                 *)

Var == "<string>"

Rule(rule, methods, endpoint) == [rule |-> rule, methods |-> methods, endpoint |-> endpoint]

url_map ==
    { Rule(<<>>, {"GET"}, "root"),
      Rule(<<"apidocs">>, {"GET"}, "apidocs"),
      Rule(<<"s3", "buckets">>, {"GET"}, "get_buckets"),
      Rule(<<"s3", "buckets", Var>>, {"POST"}, "create_bucket"),
      Rule(<<"s3", "buckets", Var>>, {"DELETE"}, "delete_bucket"),
      Rule(<<"dynamodb", "items">>, {"GET"}, "get_dynamo_items"),
      Rule(<<"dynamodb", "items">>, {"POST"}, "put_dynamo_item"),
      Rule(<<"dynamodb", "items", Var>>, {"DELETE"}, "delete_dynamo_item") }

\* the default string converter matches one segment of at least one character
PathMatches(rule, path) ==
    /\ Len(rule) = Len(path)
    /\ \A i \in 1..Len(rule) :
          IF rule[i] = Var THEN path[i] # "" ELSE rule[i] = path[i]

\* the endpoint of a request, or the routing exception
Match(method, path) ==
    LET hits == {r \in url_map : PathMatches(r.rule, path)}
    IN  IF hits = {} THEN "NotFound"
        ELSE IF \A r \in hits : method \notin r.methods THEN "MethodNotAllowed"
        ELSE (CHOOSE r \in hits : method \in r.methods).endpoint

\* the view function of the matched rule, or the handler of the routing
\* exception: 404 has one registered, 405 gets the framework's own page
Dispatch(r, k) ==
    LET ep == Match(r.method, r.path)
    IN  CASE ep = "NotFound"           -> Returned(<<>>, handle_404(ep))
          [] ep = "MethodNotAllowed"   ->
                Returned(<<>>, Response(405, "html", [html |-> "Method Not Allowed"]))
          [] ep = "root"               -> root
          [] ep = "apidocs"            -> apidocs
          [] ep = "get_buckets"        -> get_buckets(k)
          [] ep = "create_bucket"      -> create_bucket(r.path[3], k)
          [] ep = "delete_bucket"      -> delete_bucket(r.path[3], k)
          [] ep = "get_dynamo_items"   -> get_dynamo_items(k)
          [] ep = "put_dynamo_item"    -> put_dynamo_item(r.body, k)
          [] ep = "delete_dynamo_item" -> delete_dynamo_item(r.path[3], k)

\* an exception that leaves the view: with debug on it is re-raised to the
\* debugger, which answers with the traceback; otherwise the handler
\* registered for 500 answers
handle_exception(h, dbg) ==
    IF h.t = "return" THEN h.v
    ELSE IF dbg
    THEN Response(500, "html", [html |-> "Traceback: " \o h.v.type \o ": " \o h.v.text])
    ELSE handle_500(h.v)

----------------------------------------------------------------------------
(* Requests *)

Paths ==
    {<<>>, <<"apidocs">>, <<"nope">>, <<"s3", "buckets">>, <<"dynamodb", "items">>}
    \cup {<<"s3", "buckets", b>> : b \in BucketNames \cup {""}}
    \cup {<<"dynamodb", "items", i>> : i \in ItemIds \cup {""}}

ObjectBodies ==
    { JObj([id |-> JStr("123"), count |-> JNum(5)]),
      JObj([id |-> JStr("1")]),
      JObj([id |-> JStr("1"), ok |-> JBool(TRUE), note |-> JNull,
            tags |-> JArr(<<JStr("a"), JNum(1)>>), meta |-> JObj([k |-> JNum(0)])]),
      JObj([name |-> JStr("x")]),
      JObj(<<>>) }

OtherBodies ==
    { NoBody, BadBody, JNull, JBool(TRUE), JBool(FALSE), JNum(0), JNum(MaxNum),
      JStr(""), JStr("x"), JStr("id"), JStr("my id"),
      JArr(<<>>), JArr(<<JStr("x")>>), JArr(<<JStr("id")>>) }

Bodies == ObjectBodies \cup OtherBodies

Request(method, path, body) == [method |-> method, path |-> path, body |-> body]

Requests ==
    {Request(m, p, NoBody) : m \in Methods, p \in Paths}
    \cup {Request("POST", <<"dynamodb", "items">>, b) : b \in Bodies}

NoRequest == Request("NONE", <<>>, NoBody)

NoResponse == Response(0, "none", [none |-> TRUE])

IsSuccess(r) == r.kind = "json" /\ "success" \in DOMAIN r.body /\ r.body.success

----------------------------------------------------------------------------
(* The state machine: one action per endpoint *)

Init ==
    /\ debug \in BOOLEAN
    /\ buckets = {}
    /\ table = <<>>
    /\ req = NoRequest
    /\ calls = <<>>
    /\ resp = NoResponse

RECURSIVE BucketsAfterAll(_, _)
BucketsAfterAll(bks, cs) ==
    IF cs = <<>> THEN bks ELSE BucketsAfterAll(BucketsAfter(bks, Head(cs)), Tail(cs))

RECURSIVE TableAfterAll(_, _)
TableAfterAll(tbl, cs) ==
    IF cs = <<>> THEN tbl ELSE TableAfterAll(TableAfter(tbl, Head(cs)), Tail(cs))

\* request r handled to its response, the provider behaving as k
Step(r, k) ==
    LET h == Dispatch(r, k)
    IN  /\ req' = r
        /\ calls' = h.calls
        /\ resp' = handle_exception(h, debug)
        /\ buckets' = BucketsAfterAll(buckets, calls')
        /\ table' = TableAfterAll(table, calls')
        /\ UNCHANGED debug

GetBuckets ==
    \E r \in Requests :
        /\ Match(r.method, r.path) = "get_buckets"
        /\ \E k \in Behaviours : Step(r, k)

CreateBucket ==
    \E r \in Requests :
        /\ Match(r.method, r.path) = "create_bucket"
        /\ \E k \in Behaviours : Step(r, k)

DeleteBucket ==
    \E r \in Requests :
        /\ Match(r.method, r.path) = "delete_bucket"
        /\ \E k \in Behaviours : Step(r, k)

GetDynamoItems ==
    \E r \in Requests :
        /\ Match(r.method, r.path) = "get_dynamo_items"
        /\ \E k \in Behaviours : Step(r, k)

PutDynamoItem ==
    \E r \in Requests :
        /\ Match(r.method, r.path) = "put_dynamo_item"
        /\ \E k \in Behaviours : Step(r, k)

DeleteDynamoItem ==
    \E r \in Requests :
        /\ Match(r.method, r.path) = "delete_dynamo_item"
        /\ \E k \in Behaviours : Step(r, k)

Root ==
    \E r \in Requests :
        /\ Match(r.method, r.path) = "root"
        /\ Step(r, "serve")

Apidocs ==
    \E r \in Requests :
        /\ Match(r.method, r.path) = "apidocs"
        /\ Step(r, "serve")

NotFound ==
    \E r \in Requests :
        /\ Match(r.method, r.path) = "NotFound"
        /\ Step(r, "serve")

MethodNotAllowed ==
    \E r \in Requests :
        /\ Match(r.method, r.path) = "MethodNotAllowed"
        /\ Step(r, "serve")

Next ==
    \/ GetBuckets
    \/ CreateBucket
    \/ DeleteBucket
    \/ GetDynamoItems
    \/ PutDynamoItem
    \/ DeleteDynamoItem
    \/ Root
    \/ Apidocs
    \/ NotFound
    \/ MethodNotAllowed

Spec == Init /\ [][Next]_vars

----------------------------------------------------------------------------
(* Vocabulary of the properties *)

SixOperations ==
    {"get_buckets", "create_bucket", "delete_bucket",
     "get_dynamo_items", "put_dynamo_item", "delete_dynamo_item"}

\* the endpoint that req was routed to
Endpoint == IF req = NoRequest THEN "none" ELSE Match(req.method, req.path)

IsEnvelope(r) == r.kind = "json" /\ "success" \in DOMAIN r.body

IsErrorEnvelope(r) ==
    /\ IsEnvelope(r)
    /\ r.body.success = FALSE
    /\ DOMAIN r.body = {"success", "error"}
    /\ r.body.error # ""

\* the outcome of the provider call made for req, when one was made
CallRaised(type) ==
    /\ calls # <<>>
    /\ calls[Len(calls)].out.kind = "raise"
    /\ calls[Len(calls)].out.exc.type = type

CallServed == calls # <<>> /\ calls[Len(calls)].out.kind = "ok"

\* some provider call made for req raised, whatever the exception
CallRaisedAny == \E i \in 1..Len(calls) : calls[i].out.kind = "raise"

----------------------------------------------------------------------------
(* Properties *)

\* C1: for each of the six operations and every outcome of the provider
\* call, a response body with success true has no error, and one with
\* success false has a non-empty error and neither data nor message.
C1_EnvelopeUnambiguous ==
    (Endpoint \in SixOperations /\ "success" \in DOMAIN resp.body) =>
        /\ resp.body.success = TRUE => "error" \notin DOMAIN resp.body
        /\ resp.body.success = FALSE =>
              /\ "error" \in DOMAIN resp.body
              /\ resp.body.error # ""
              /\ "data" \notin DOMAIN resp.body
              /\ "message" \notin DOMAIN resp.body

\* a provider call of one of the six operations failed and was answered
C1_Witness ==
    /\ Endpoint = "delete_bucket"
    /\ CallRaised("ClientError")
    /\ IsEnvelope(resp)
    /\ resp.body.success = FALSE

\* C2: put-item with a JSON object body that has no id key, the empty
\* object included, is answered 400 with an error envelope, and put_item is
\* not called for that request.
C2_MissingIdShortCircuits ==
    (Endpoint = "put_dynamo_item" /\ req.body.t = "obj" /\ "id" \notin DOMAIN req.body.v) =>
        /\ resp.status = 400
        /\ IsErrorEnvelope(resp)
        /\ calls = <<>>

\* a non-empty object without id was posted and refused
C2_Witness ==
    /\ Endpoint = "put_dynamo_item"
    /\ req.body = JObj([name |-> JStr("x")])
    /\ resp.status = 400
    /\ calls = <<>>

\* C3: for every accepted put-item body (an object containing id), the Item
\* passed to put_item has exactly the body's keys, and each key maps to
\* {"S": string form of its value} whatever the JSON type of the value;
\* {"id": "123", "count": 5} is sent as {"id": {"S": "123"}, "count": {"S": "5"}}.
C3_ItemStringified ==
    (Endpoint = "put_dynamo_item" /\ req.body.t = "obj" /\ "id" \in DOMAIN req.body.v) =>
        /\ Len(calls) = 1
        /\ calls[1].call.op = "put_item"
        /\ LET item == calls[1].call.args.Item
           IN  /\ DOMAIN item = DOMAIN req.body.v
               /\ \A key \in DOMAIN item :
                     /\ DOMAIN item[key] = {"S"}
                     /\ item[key].S = PyStr(req.body.v[key])
               /\ req.body = JObj([id |-> JStr("123"), count |-> JNum(5)]) =>
                     item = [id |-> [S |-> "123"], count |-> [S |-> "5"]]
               /\ "ok" \in DOMAIN item =>
                     /\ item["ok"] = [S |-> "True"]
                     /\ item["note"] = [S |-> "None"]
                     /\ item["tags"] = [S |-> "['a', 1]"]
                     /\ item["meta"] = [S |-> "{'k': 0}"]

\* the body of the example was posted and passed on
C3_Witness ==
    /\ Endpoint = "put_dynamo_item"
    /\ req.body = JObj([id |-> JStr("123"), count |-> JNum(5)])
    /\ CallServed
    /\ "123" \in DOMAIN table

\* C4 as stated: delete-item for a non-empty id yields a success envelope
\* every time, as long as the provider raises no client error.
C4_SuccessUnlessClientError ==
    (Endpoint = "delete_dynamo_item" /\ ~CallRaised("ClientError")) => IsSuccess(resp)

\* C4 amended: as long as the provider raises no exception of any kind,
\* delete-item for a non-empty id answers with a success envelope, whether or
\* not the item existed and whatever the request before it was; the handler
\* makes the one delete_item call and no other; afterwards the table holds
\* no item with that id, and a delete of an absent id leaves the table
\* unchanged.
C4_DeleteIdempotent ==
    [][ (Endpoint' = "delete_dynamo_item" /\ ~CallRaisedAny') =>
            LET id == req'.path[3]
            IN  /\ id # ""
                /\ IsSuccess(resp')
                /\ resp'.status = 200
                /\ Len(calls') = 1
                /\ calls'[1].call.op = "delete_item"
                /\ id \notin DOMAIN table'
                /\ DOMAIN table' = DOMAIN table \ {id}
                /\ \A i \in DOMAIN table' : table'[i] = table[i]
                /\ id \notin DOMAIN table => table' = table
      ]_vars

\* a delete of an id that no item has was answered with success
C4_Witness ==
    /\ req = Request("DELETE", <<"dynamodb", "items", "9">>, NoBody)
    /\ CallServed
    /\ IsSuccess(resp)
    /\ "9" \notin DOMAIN table

\* C5 as stated: every response, for any method and path, is the JSON
\* envelope; an unmatched route is answered 404 with {success: false, error};
\* a handler that raises is answered 500 with the same shape and a fixed
\* message that holds none of the exception's text.
C5_NoPathEscapesEnvelope ==
    req # NoRequest =>
        /\ IsEnvelope(resp)
        /\ Endpoint = "NotFound" => (resp.status = 404 /\ IsErrorEnvelope(resp))
        /\ (\/ CallRaised("NoCredentialsError")
            \/ (Endpoint = "put_dynamo_item" /\ calls = <<>> /\ resp.status # 400)) =>
              /\ resp.status = 500
              /\ resp.body = [success |-> FALSE, error |-> "Internal server error"]

\* C6 as stated: a create-bucket request with the empty bucket name is
\* rejected by the provider client and answered 400 with an error envelope.
C6_EmptyBucketNameIs400 ==
    (req.method = "POST" /\ req.path = <<"s3", "buckets", "">>) =>
        /\ resp.status = 400
        /\ IsErrorEnvelope(resp)
        /\ CallRaised("ClientError")

\* C7: in each of the six handlers, a client error raised by the provider
\* call is answered 400 with {success: false, error: the provider's text},
\* whatever its sub-cause.
C7_ClientErrorIs400 ==
    (Endpoint \in SixOperations /\ CallRaised("ClientError")) =>
        /\ resp.status = 400
        /\ resp.kind = "json"
        /\ resp.body = [success |-> FALSE, error |-> calls[Len(calls)].out.exc.text]

\* the table scan was refused for lack of permission
C7_Witness ==
    /\ Endpoint = "get_dynamo_items"
    /\ CallRaised("ClientError")
    /\ calls[1].out = ClientError("AccessDenied", "scan")
    /\ resp.status = 400

\* C8: on success the reads (list buckets, scan items) carry data and no
\* message, also when the provider returns nothing (zero buckets gives
\* exactly {success: true, data: []}); the mutating operations carry a
\* non-empty message and no data.
C8_PayloadByKind ==
    (Endpoint \in SixOperations /\ IsSuccess(resp)) =>
        IF Endpoint \in {"get_buckets", "get_dynamo_items"}
        THEN /\ DOMAIN resp.body = {"success", "data"}
             /\ (Endpoint = "get_buckets" /\ buckets = {}) =>
                    resp.body = [success |-> TRUE, data |-> <<>>]
             /\ (Endpoint = "get_dynamo_items" /\ DOMAIN table = {}) =>
                    resp.body = [success |-> TRUE, data |-> <<>>]
        ELSE /\ DOMAIN resp.body = {"success", "message"}
             /\ resp.body.message # ""

\* the buckets were listed when there were none
C8_Witness ==
    /\ Endpoint = "get_buckets"
    /\ CallServed
    /\ buckets = {}
    /\ IsSuccess(resp)
    /\ resp.body.data = <<>>

\* C9 as stated: a request to one of the six operation routes makes exactly
\* one provider call, except a put-item rejected by body validation, which
\* makes none.
C9_ExactlyOneProviderCall ==
    Endpoint \in SixOperations =>
        \/ Len(calls) = 1
        \/ /\ Endpoint = "put_dynamo_item"
           /\ Len(calls) = 0
           /\ resp.status = 400
           /\ IsErrorEnvelope(resp)

\* C10 as stated: a put-item body that is missing, unparseable, or JSON but
\* not an object is answered 400 with an error envelope, without a provider
\* call and without reaching the 500 backstop.
C10_NonObjectBodyIs400 ==
    (Endpoint = "put_dynamo_item" /\ req.body.t # "obj") =>
        /\ resp.status = 400
        /\ IsErrorEnvelope(resp)
        /\ calls = <<>>

====
